---- MODULE Spec2Model ----
(***************************************************************************)
(* Activity identity resolution engine of the travel-agent orchestrator:   *)
(* ActivityProcessingService (activity_processing_service.py).             *)
(*                                                                         *)
(* State: the in-memory record dict `activities` (a Python dict, i.e. an   *)
(* insertion-ordered map), the FAISS index, the parallel list index_to_id, *)
(* and the two files on disk (<db>.faiss and <db>.records).                *)
(*                                                                         *)
(* Abstractions:                                                           *)
(*  - an activity id "activity_<16 hex>" is an integer of IDS; the integer *)
(*    order stands for the lexicographic order of the strings;             *)
(*  - a text is a sequence of one-character strings;                       *)
(*  - an embedding is a point on the integer line; the squared L2 distance *)
(*    FAISS reports is 0.3 * (a-b)^2, so that one step apart is exactly    *)
(*    the threshold similarity; distances/similarities are kept as scaled  *)
(*    integers (distance * 20, similarity * 40).                           *)
(***************************************************************************)
EXTENDS Integers, Sequences, FiniteSets, TLC

\* ---------------------------------------------------------------- bounds
\* the ids uuid4 can produce
MaxIds == 2
IDS == 1..MaxIds
NoId == 0
\* the HTTP requests in flight at one time
MaxRequests == 2
Requests == 1..MaxRequests

\* ------------------------------------------------------- program constants
\* similarity_threshold = 0.85, scaled by 40
SimilarityThreshold == 34
\* max_distance = 2.0: similarity = 1 - d/2; with d scaled by 20 and the
\* similarity by 40 this is 40 - d20, i.e. d20 * MaxDistance / 2
MaxDistance == 2
\* k of index.search(embedding, 5)
TopK == 5

\* ------------------------------------------------------------------ texts
None == <<"None">>
Sep == <<" ", "|", " ">>

\* a character is a one-element string; "A_acute" and "a_acute" stand for
\* the accented letters U+00C1 and U+00E1
LowerChar(c) == CASE c = "A" -> "a" [] c = "T" -> "t"
                  [] c = "A_acute" -> "a_acute" [] OTHER -> c

\* str.lower()
Lower(t) == [i \in 1..Len(t) |-> LowerChar(t[i])]

Names == {<<"A">>, <<"b">>, <<"c">>}
Location == <<"x">>
Category == <<"T">>

\* the activity dicts submitted by callers: the three text fields, and for
\* some of them a key the engine does not know
BaseActivity(n) == [k \in {"name", "location", "category"} |->
                      IF k = "name" THEN n
                      ELSE IF k = "location" THEN Location ELSE Category]
NotedActivity(n) == [k \in {"name", "location", "category", "note"} |->
                      IF k = "name" THEN n
                      ELSE IF k = "location" THEN Location
                      ELSE IF k = "category" THEN Category ELSE <<"n">>]
Activities == {BaseActivity(n) : n \in Names} \cup {NotedActivity(<<"b">>)}

\* spellings of one name that differ in case, whitespace, a diacritic or a
\* special character
VariantNames == {<<"a">>, <<" ", "a">>, <<"A_acute">>, <<"a", "!">>,
                 <<"a", " ", "b">>, <<"A", " ", " ", "b">>}
VariantActivities == {BaseActivity(n) : n \in VariantNames}

\* activity dicts that lack one of the three text fields
RequiredKeys == {"name", "location", "category"}
WithoutKey(a, key) == [k \in (DOMAIN a) \ {key} |-> a[k]]
IncompleteActivities ==
    {WithoutKey(BaseActivity(<<"b">>), key) : key \in RequiredKeys}

\* activity_data.get(key, '')
GetOr(activity_data, key) ==
    IF key \in DOMAIN activity_data THEN activity_data[key] ELSE <<>>

\* f"{name} | {location} | {category}" of the lower-cased fields
SignatureOf(activity_data) ==
    Lower(GetOr(activity_data, "name")) \o Sep
      \o Lower(GetOr(activity_data, "location")) \o Sep
      \o Lower(GetOr(activity_data, "category"))

\* _normalize_text: lower-case, NFKD without the combining marks, drop what
\* is not a word character, whitespace, '-', '.' or ',', then
\* ' '.join(text.split())
StripMark(c) == IF c = "a_acute" THEN "a" ELSE c
Special == {"!", "|"}
NotSpecial(c) == c \notin Special
JoinSplit(t) ==
    LET KeepAt(i) == \/ t[i] # " "
                     \/ /\ i > 1
                        /\ t[i - 1] # " "
                        /\ \E j \in (i + 1)..Len(t) : t[j] # " "
        kept == {i \in 1..Len(t) : KeepAt(i)}
        rank(i) == Cardinality({j \in kept : j <= i})
    IN [p \in 1..Cardinality(kept) |-> t[CHOOSE i \in kept : rank(i) = p]]
NormalizeText(text) ==
    IF text = <<>> THEN <<>>
    ELSE JoinSplit(SelectSeq([i \in 1..Len(text) |->
                                 StripMark(LowerChar(text[i]))], NotSpecial))

\* _create_activity_signature: the normalized fields, the category only
\* when it is not empty
CreateActivitySignature(name, location, category) ==
    NormalizeText(name) \o Sep \o NormalizeText(location)
      \o (IF NormalizeText(category) # <<>>
          THEN Sep \o NormalizeText(category) ELSE <<>>)

\* The external embedder, deterministic: a signature is placed on the line
\* by the letters it holds.
CharCode(c) == CASE c = "b" -> 1 [] c = "c" -> 2 [] OTHER -> 0

SumCodes(t) ==
    Cardinality({i \in 1..Len(t) : CharCode(t[i]) >= 1})
      + Cardinality({i \in 1..Len(t) : CharCode(t[i]) >= 2})

GetEmbedding(text) == SumCodes(text)

\* ------------------------------------------------- the ordered record dict
Record(id, n, l, c, e) ==
    [activity_id |-> id, name |-> n, location |-> l, category |-> c,
     embedding |-> e]

Keys(d) == [i \in 1..Len(d) |-> d[i].activity_id]
KeySet(d) == {d[i].activity_id : i \in 1..Len(d)}
HasKey(d, k) == k \in KeySet(d)
Get(d, k) == d[CHOOSE i \in 1..Len(d) : d[i].activity_id = k]

\* (an assignment to an existing key that lands on the first entry)
PutOverFirst(d, k, rec) ==
    IF HasKey(d, k)
    THEN [i \in 1..Len(d) |-> IF i = 1 THEN rec ELSE d[i]]
    ELSE Append(d, rec)

\* d[k] = rec: an existing key keeps its position, a new key goes last
Put(d, k, rec) ==
    IF HasKey(d, k)
    THEN [i \in 1..Len(d) |-> IF d[i].activity_id = k THEN rec ELSE d[i]]
    ELSE Append(d, rec)

\* sorted(records.items(), key=lambda x: x[0])
SortedRecords(d) ==
    LET pos(i) == 1 + Cardinality({j \in 1..Len(d) :
                                      d[j].activity_id < d[i].activity_id})
    IN [p \in 1..Len(d) |-> d[CHOOSE i \in 1..Len(d) : pos(i) = p]]

\* ------------------------------------------------------------ FAISS index
NewIndex(metric) == [metric |-> metric, vecs |-> <<>>]
IndexAdd(ix, v) == [ix EXCEPT !.vecs = Append(@, v)]
NTotal(ix) == Len(ix.vecs)

\* squared L2 distance of two embeddings, in units of 0.3: two embeddings
\* one step apart have similarity 1 - 0.3/2 = 0.85, which is the threshold
SqDist(a, b) == (a - b) * (a - b)

\* the value the index reports for a stored vector, scaled by 20: the
\* squared L2 distance for IndexFlatL2, the inner product for IndexFlatIP
\* (unit-norm vectors: ip = 1 - d/2)
Reported(ix, q, slot) ==
    IF ix.metric = "L2" THEN 6 * SqDist(q, ix.vecs[slot])
    ELSE 20 - 3 * SqDist(q, ix.vecs[slot])

\* (a ranking that puts the farthest vector first)
BeforeFarthest(ix, q, i, j) ==
    LET di == Reported(ix, q, i)
        dj == Reported(ix, q, j)
    IN IF di # dj THEN di > dj ELSE i < j

\* slot i is returned before slot j: nearest first for L2, largest inner
\* product first for IP, the lower slot first among equals
Before(ix, q, i, j) ==
    LET di == Reported(ix, q, i)
        dj == Reported(ix, q, j)
    IN IF di # dj
       THEN (IF ix.metric = "L2" THEN di < dj ELSE di > dj)
       ELSE i < j

Ranked(ix, q, S) ==
    LET pos(i) == 1 + Cardinality({j \in S \ {i} : Before(ix, q, j, i)})
    IN [p \in 1..Cardinality(S) |-> CHOOSE i \in S : pos(i) = p]

\* index.search(q, k): the slots of the k best stored vectors, best first
\* (the -1 padding FAISS adds is dropped: the caller skips it)
IndexSearch(ix, q, k) ==
    LET r == Ranked(ix, q, 1..NTotal(ix))
    IN SubSeq(r, 1, IF Len(r) < k THEN Len(r) ELSE k)

\* similarities = 1.0 - distances / max_distance, scaled by 40
Similarity(ix, q, slot) == 40 - (Reported(ix, q, slot) * 2) \div MaxDistance

\* (a search that keeps every hit, whatever its similarity)
SearchSimilarNoThreshold(ix, i2id, e) ==
    IF NTotal(ix) = 0 THEN [raised |-> FALSE, found |-> <<>>]
    ELSE LET hits == IndexSearch(ix, e, TopK)
         IN IF \E i \in 1..Len(hits) : hits[i] > Len(i2id)
            THEN [raised |-> TRUE, found |-> <<>>]
            ELSE [raised |-> FALSE,
                  found |-> [i \in 1..Len(hits) |-> i2id[hits[i]]]]

\* _search_similar_activities: the ids of the hits with similarity >=
\* threshold, best first; an IndexError when a hit's slot is not in
\* index_to_id; nothing (None) on an empty index
SearchSimilar(ix, i2id, e) ==
    IF NTotal(ix) = 0 THEN [raised |-> FALSE, found |-> <<>>]
    ELSE LET hits == IndexSearch(ix, e, TopK)
             Close(slot) == Similarity(ix, e, slot) >= SimilarityThreshold
             cand == SelectSeq(hits, Close)
         IN IF \E i \in 1..Len(cand) : cand[i] > Len(i2id)
            THEN [raised |-> TRUE, found |-> <<>>]
            ELSE [raised |-> FALSE,
                  found |-> [i \in 1..Len(cand) |-> i2id[cand[i]]]]

\* _rebuild_index without its write: a fresh L2 index over the records in
\* dict order
RebuiltIndex(acts) ==
    [metric |-> "L2", vecs |-> [i \in 1..Len(acts) |-> acts[i].embedding]]


\* ------------------------------------------------------------------ state
VARIABLES
    activities,     \* self.activities: the ordered record dict
    index,          \* self.index
    index_to_id,    \* self.index_to_id
    indexFile,      \* the file db_path: [exists, index]
    recordsFile,    \* the file db_path.with_suffix('.records'): [exists, records]
    up,             \* an engine instance is running
    usedIds,        \* the ids uuid4 has produced so far
    ret,            \* the last operation, what it returned to its caller,
                    \* (sig) the text it passed to the embedder and, for
                    \* process_trip_plan, (after) the caller's plan after it
    lastFor,        \* per tuple: the persisted id its latest resolve returned
    held,           \* per tuple: that id, while no other tuple was given it
    got,            \* per id: the embeddings of the submissions given that id
    prior,          \* lastFor, held and got of the last call, before it
    lastKill,       \* the resolve the process was last killed in
    other,          \* activities, index and index_to_id of the engine that
                    \* TripService constructs for itself
    reqs,           \* per HTTP request: its endpoint and where its handler is
    running         \* the handler the event loop is executing (0: none)

vars == <<activities, index, index_to_id, indexFile, recordsFile, up,
          usedIds, ret, lastFor, held, got, prior, lastKill,
          other, reqs, running>>

\* the state of the HTTP layer and of the second engine
server == <<other, reqs, running>>

State == [activities |-> activities, index |-> index,
          index_to_id |-> index_to_id,
          indexFile |-> indexFile, recordsFile |-> recordsFile]

\* ------------------------------------------------------- process_activity
MatchKeys == {"name", "description", "location", "startTime", "endTime",
              "participants", "category"}

\* the dict literal returned on the match path: the seven known keys, read
\* with .get (description defaults to '')
MatchData(a) ==
    [k \in MatchKeys |->
        IF k \in DOMAIN a THEN a[k]
        ELSE IF k = "description" THEN <<>> ELSE None]

\* {**activity_data, 'activityId': ...}: what the create path and the
\* except branch return
SpreadData(a) == a

Outcome(st, path, id, data, generated, fired) ==
    [activities |-> st.activities, index |-> st.index,
     index_to_id |-> st.index_to_id,
     indexFile |-> st.indexFile, recordsFile |-> st.recordsFile,
     path |-> path, activityId |-> id, data |-> data,
     generated |-> generated, fired |-> fired]

\* (an except branch that also keeps the activity under its fallback id)
FallbackStored(st, a, fbId, generated, why) ==
    [activities |-> Put(st.activities, fbId,
                        Record(fbId, Lower(GetOr(a, "name")),
                               Lower(GetOr(a, "location")),
                               Lower(GetOr(a, "category")),
                               GetEmbedding(SignatureOf(a)))),
     index |-> st.index, index_to_id |-> st.index_to_id,
     indexFile |-> st.indexFile, recordsFile |-> st.recordsFile,
     path |-> "fallback", activityId |-> fbId, data |-> a,
     generated |-> generated \cup {fbId}, fired |-> why]

\* the except branch of process_activity: a fallback id, whatever state the
\* try block left behind
Fallback(st, a, fbId, generated, why) ==
    Outcome(st, "fallback", fbId, SpreadData(a), generated \cup {fbId}, why)

\* the process is killed inside the call: nothing is returned
Killed(st, generated, why) ==
    Outcome(st, "killed", NoId, [k \in {} |-> None], generated, why)

\* faiss.write_index opens db_path for writing and fills it: a process killed
\* inside it leaves a file that faiss.read_index cannot read
TornIndex == [metric |-> "torn", vecs |-> <<>>]
Readable(ixf) == ixf.index.metric # "torn"

\* (a match path that leaves the matched record as it was)
MatchPathKeepRecord(st, a, e, similar_id, fail, fbId) ==
    LET acts1 == st.activities
        mem1 == [st EXCEPT !.index = RebuiltIndex(acts1),
                           !.index_to_id = Keys(acts1)]
        written == [mem1 EXCEPT !.indexFile =
                        [exists |-> TRUE, index |-> mem1.index]]
        torn == [mem1 EXCEPT !.indexFile =
                        [exists |-> TRUE, index |-> TornIndex]]
    IN IF fail = "index_write" THEN Fallback(mem1, a, fbId, {}, fail)
       ELSE IF fail = "kill_before_index_write" THEN Killed(mem1, {}, fail)
       ELSE IF fail = "kill_in_index_write" THEN Killed(torn, {}, fail)
       ELSE IF fail = "kill_after_index_write" THEN Killed(written, {}, fail)
       ELSE Outcome(written, "match", similar_id, MatchData(a), {}, "none")

\* _rebuild_index followed by the rest of the match path
MatchPath(st, a, e, similar_id, fail, fbId) ==
    LET updated == Record(similar_id, Lower(GetOr(a, "name")),
                          Lower(GetOr(a, "location")),
                          Lower(GetOr(a, "category")), e)
        acts1 == Put(st.activities, similar_id, updated)
        mem1 == [st EXCEPT !.activities = acts1,
                           !.index = RebuiltIndex(acts1),
                           !.index_to_id = Keys(acts1)]
        written == [mem1 EXCEPT !.indexFile =
                        [exists |-> TRUE, index |-> mem1.index]]
        torn == [mem1 EXCEPT !.indexFile =
                        [exists |-> TRUE, index |-> TornIndex]]
    IN IF fail = "index_write" THEN Fallback(mem1, a, fbId, {}, fail)
       ELSE IF fail = "kill_before_index_write" THEN Killed(mem1, {}, fail)
       ELSE IF fail = "kill_in_index_write" THEN Killed(torn, {}, fail)
       ELSE IF fail = "kill_after_index_write" THEN Killed(written, {}, fail)
       ELSE Outcome(written, "match", similar_id, MatchData(a), {}, "none")

\* (a create path whose except branch hands out the id of the record it
\* has just stored instead of a second uuid4 value)
CreatePathSameId(st, a, e, fail, newId, fbId) ==
    LET rec == Record(newId, Lower(GetOr(a, "name")),
                      Lower(GetOr(a, "location")),
                      Lower(GetOr(a, "category")), e)
        mem1 == [st EXCEPT !.index = IndexAdd(st.index, e),
                           !.activities = Put(st.activities, newId, rec),
                           !.index_to_id = Append(st.index_to_id, newId)]
        half == [mem1 EXCEPT !.indexFile =
                        [exists |-> TRUE, index |-> mem1.index]]
        full == [half EXCEPT !.recordsFile =
                        [exists |-> TRUE, records |-> mem1.activities]]
        torn == [mem1 EXCEPT !.indexFile =
                        [exists |-> TRUE, index |-> TornIndex]]
    IN IF fail = "index_write" THEN Fallback(mem1, a, newId, {newId}, fail)
       ELSE IF fail = "kill_before_index_write" THEN Killed(mem1, {newId}, fail)
       ELSE IF fail = "kill_in_index_write" THEN Killed(torn, {newId}, fail)
       ELSE IF fail = "records_write" THEN Fallback(half, a, newId, {newId}, fail)
       ELSE IF fail = "kill_after_index_write" THEN Killed(half, {newId}, fail)
       ELSE Outcome(full, "create", newId, SpreadData(a), {newId}, "none")

\* (a create path that rebuilds index and index_to_id from the records)
CreatePathRebuilding(st, a, e, fail, newId, fbId) ==
    LET rec == Record(newId, Lower(GetOr(a, "name")),
                      Lower(GetOr(a, "location")),
                      Lower(GetOr(a, "category")), e)
        acts1 == Put(st.activities, newId, rec)
        mem1 == [st EXCEPT !.index = RebuiltIndex(acts1),
                           !.activities = acts1,
                           !.index_to_id = Keys(acts1)]
        half == [mem1 EXCEPT !.indexFile =
                        [exists |-> TRUE, index |-> mem1.index]]
        full == [half EXCEPT !.recordsFile =
                        [exists |-> TRUE, records |-> mem1.activities]]
        torn == [mem1 EXCEPT !.indexFile =
                        [exists |-> TRUE, index |-> TornIndex]]
    IN IF fail = "index_write" THEN Fallback(mem1, a, fbId, {newId}, fail)
       ELSE IF fail = "kill_before_index_write" THEN Killed(mem1, {newId}, fail)
       ELSE IF fail = "kill_in_index_write" THEN Killed(torn, {newId}, fail)
       ELSE IF fail = "records_write" THEN Fallback(half, a, fbId, {newId}, fail)
       ELSE IF fail = "kill_after_index_write" THEN Killed(half, {newId}, fail)
       ELSE Outcome(full, "create", newId, SpreadData(a), {newId}, "none")

\* _generate_activity_id and _store_activity
CreatePath(st, a, e, fail, newId, fbId) ==
    LET rec == Record(newId, Lower(GetOr(a, "name")),
                      Lower(GetOr(a, "location")),
                      Lower(GetOr(a, "category")), e)
        mem1 == [st EXCEPT !.index = IndexAdd(st.index, e),
                           !.activities = Put(st.activities, newId, rec),
                           !.index_to_id = Append(st.index_to_id, newId)]
        half == [mem1 EXCEPT !.indexFile =
                        [exists |-> TRUE, index |-> mem1.index]]
        full == [half EXCEPT !.recordsFile =
                        [exists |-> TRUE, records |-> mem1.activities]]
        torn == [mem1 EXCEPT !.indexFile =
                        [exists |-> TRUE, index |-> TornIndex]]
    IN IF fail = "index_write" THEN Fallback(mem1, a, fbId, {newId}, fail)
       ELSE IF fail = "kill_before_index_write" THEN Killed(mem1, {newId}, fail)
       ELSE IF fail = "kill_in_index_write" THEN Killed(torn, {newId}, fail)
       ELSE IF fail = "records_write" THEN Fallback(half, a, fbId, {newId}, fail)
       ELSE IF fail = "kill_after_index_write" THEN Killed(half, {newId}, fail)
       ELSE Outcome(full, "create", newId, SpreadData(a), {newId}, "none")

\* process_activity(activity_data) from state st; fail names the step that
\* goes wrong in this call ("none": no step does), newId and fbId are the
\* values uuid4 would produce for the create path and the except branch
ProcessActivity(st, a, fail, newId, fbId) ==
    LET e == GetEmbedding(SignatureOf(a))
        s == SearchSimilar(st.index, st.index_to_id, e)
    IN IF fail = "embed" THEN Fallback(st, a, fbId, {}, fail)
       ELSE IF s.raised THEN Fallback(st, a, fbId, {}, "IndexError")
       ELSE IF s.found # <<>>
       THEN IF HasKey(st.activities, s.found[1])
            THEN MatchPath(st, a, e, s.found[1], fail, fbId)
            ELSE Fallback(st, a, fbId, {}, "KeyError")
       ELSE CreatePath(st, a, e, fail, newId, fbId)


\* ------------------------------------------------ engine construction
\* _load_activities
LoadActivities(rf) == IF rf.exists THEN rf.records ELSE <<>>

\* __init__: _load_activities, then _init_index, from the files of disk
\* state st (its memory fields are ignored)
InitEngine(st) ==
    LET loaded == LoadActivities(st.recordsFile)
        sorted == SortedRecords(st.recordsFile.records)
    IN IF st.indexFile.exists /\ ~Readable(st.indexFile)
       THEN \* faiss.read_index raises: the except branch
            [st EXCEPT !.activities = <<>>,
                       !.index = NewIndex("L2"),
                       !.index_to_id = <<>>]
       ELSE IF st.indexFile.exists
       THEN IF st.recordsFile.exists
            THEN IF NTotal(st.indexFile.index) # Len(sorted)
                 THEN \* _rebuild_index, which writes the index file
                      [st EXCEPT !.activities = sorted,
                                 !.index = RebuiltIndex(sorted),
                                 !.index_to_id = Keys(sorted),
                                 !.indexFile = [exists |-> TRUE,
                                                index |-> RebuiltIndex(sorted)]]
                 ELSE [st EXCEPT !.activities = sorted,
                                 !.index = st.indexFile.index,
                                 !.index_to_id = Keys(sorted)]
            ELSE [st EXCEPT !.activities = loaded,
                            !.index = st.indexFile.index,
                            !.index_to_id = <<>>]
       ELSE [st EXCEPT !.activities = <<>>,
                       !.index = NewIndex("L2"),
                       !.index_to_id = <<>>]

\* ------------------------------------------------ cleanup_old_activities
\* ActivityRecord has no last_used field: reading it raises AttributeError
HasLastUsed(rec) == "last_used" \in DOMAIN rec

\* cleanup_old_activities(days_old), cutoff = now - days_old
CleanupOldActivities(st, cutoff) ==
    IF \E i \in 1..Len(st.activities) : ~HasLastUsed(st.activities[i])
    THEN [st |-> st, raised |-> TRUE, deleted_count |-> 0]
    ELSE LET Recent(rec) == rec.last_used >= cutoff
             new_activities == SelectSeq(st.activities, Recent)
             new_index == [metric |-> "IP",
                           vecs |-> [i \in 1..Len(new_activities) |->
                                        new_activities[i].embedding]]
         IN [st |-> [st EXCEPT !.index = new_index,
                               !.activities = new_activities,
                               !.indexFile = [exists |-> TRUE,
                                              index |-> new_index],
                               !.recordsFile = [exists |-> TRUE,
                                                records |-> new_activities]],
             raised |-> FALSE,
             \* len(self.activities) - len(new_activities), computed after
             \* self.activities was replaced
             deleted_count |-> Len(new_activities) - Len(new_activities)]


\* ------------------------------------------------------------- operations
TupleOf(a) == <<GetOr(a, "name"), GetOr(a, "location"), GetOr(a, "category")>>
Tuples == {TupleOf(a) : a \in Activities}

NoData == [k \in {} |-> None]
NoFiles == [activities |-> <<>>, index |-> NewIndex("L2"),
            index_to_id |-> <<>>,
            indexFile |-> [exists |-> FALSE, index |-> NewIndex("L2")],
            recordsFile |-> [exists |-> FALSE, records |-> <<>>]]
NoEmbedding == 0 - 1
NoMemory == [activities |-> <<>>, index |-> NewIndex("L2"),
             index_to_id |-> <<>>]
NoRequest == [ep |-> "none", pc |-> "none"]
NoPrior == [last |-> NoId, held |-> NoId, emb |-> NoEmbedding]
NoKill == [st |-> NoFiles, input |-> NoData, newId |-> NoId]

\* placeholders to find out which ids a call will ask uuid4 for
ProbeNew == NoId - 1
ProbeFb == NoId - 2

\* uuid4().hex[:16]: a value no earlier call produced.  usedIds holds the
\* ids made for records; a fallback id is kept nowhere by the engine, so it
\* is only kept apart from the ids of records and from the id returned last.
FreshIds == IDS \ (usedIds \cup {ret.activityId})

\* ------------------------------------------------------ process_trip_plan
\* An entry of a span's 'activities' list is a dict or, in a malformed
\* plan, a value that is no mapping (a string).
DictValue(a) == [type |-> "dict", v |-> a]
StrValue == [type |-> "str", v |-> [k \in {} |-> None]]

\* span.get('activities', []) and trip_plan_json.get('spans', [])
ActivitiesOf(span) ==
    IF "activities" \in DOMAIN span THEN span.activities ELSE <<>>
SpansOf(plan) == IF "spans" \in DOMAIN plan THEN plan.spans ELSE <<>>

\* the activities of spans s, s+1, ... in the order the two loops visit them
RECURSIVE FlatItems(_, _)
FlatItems(spans, s) ==
    IF s > Len(spans) THEN <<>>
    ELSE [i \in 1..Len(ActivitiesOf(spans[s])) |->
             [span |-> s, value |-> ActivitiesOf(spans[s])[i]]]
         \o FlatItems(spans, s + 1)

\* what the loops have done so far: the engine state, the results appended,
\* how many values of uuid4 were consumed, whether a call raised and, if
\* so, in which span (at)
PlanStart(st) ==
    [st |-> st, out |-> <<>>, used |-> 0, generated |-> {},
     raised |-> FALSE, fits |-> TRUE, at |-> 0]

EngineOf(o) ==
    [activities |-> o.activities, index |-> o.index,
     index_to_id |-> o.index_to_id,
     indexFile |-> o.indexFile, recordsFile |-> o.recordsFile]

\* one pass of the loop body, process_activity(a) having returned o
Appended(acc, item, o, consumed, fbId) ==
    [st |-> EngineOf(o),
     out |-> Append(acc.out, [span |-> item.span, data |-> o.data,
                              activityId |-> o.activityId, path |-> o.path]),
     used |-> acc.used + consumed,
     generated |-> acc.generated \cup (o.generated \ {fbId}),
     raised |-> FALSE, fits |-> TRUE, at |-> 0]

\* process_activity(a) with the next values of uuid4: needNew and needFb
\* tell whether the call asks for a record id and for a fallback id
StepWithIds(acc, item, fail, ids, needNew, needFb) ==
    IF acc.used + needNew + needFb > Len(ids)
    THEN [acc EXCEPT !.fits = FALSE]
    ELSE CHOOSE r \in
           {Appended(acc, item, o, needNew + needFb, fbId[1]) :
              o \in {ProcessActivity(acc.st, item.value.v, fail,
                        IF needNew = 1 THEN ids[acc.used + 1] ELSE NoId,
                        IF needFb = 1 THEN ids[acc.used + needNew + 1]
                        ELSE NoId)},
              fbId \in {<<IF needFb = 1 THEN ids[acc.used + needNew + 1]
                          ELSE NoId>>}} : TRUE

\* the loop body for one item: process_activity on a dict; on a value that
\* is no mapping activity_data.get raises inside the try, and
\* {**activity_data, ...} raises again in the except branch, which
\* process_trip_plan re-raises.  fits becomes FALSE when the failure
\* scheduled for the item cannot happen in this state.
Step(acc, item, fail, ids) ==
    IF item.value.type # "dict"
    THEN IF fail # "none" \/ acc.used + 1 > Len(ids)
         THEN [acc EXCEPT !.fits = FALSE]
         ELSE [acc EXCEPT !.raised = TRUE, !.used = @ + 1, !.at = item.span]
    ELSE CHOOSE r \in
           {IF probe.fired = fail
                 \/ (fail = "none" /\ probe.path = "fallback")
            THEN StepWithIds(acc, item, fail, ids,
                             IF ProbeNew \in probe.generated THEN 1 ELSE 0,
                             IF ProbeFb \in probe.generated THEN 1 ELSE 0)
            ELSE [acc EXCEPT !.fits = FALSE] :
              probe \in {ProcessActivity(acc.st, item.value.v, fail,
                                          ProbeNew, ProbeFb)}} : TRUE

\* the two loops from item k on.  F holds the positions at which step
\* `kind` goes wrong, ids the values uuid4 produces, in order.
RECURSIVE ProcessItems(_, _, _, _, _, _)
ProcessItems(acc, items, k, F, kind, ids) ==
    IF k > Len(items) \/ acc.raised \/ ~acc.fits THEN acc
    ELSE CHOOSE r \in
           {ProcessItems(next, items, k + 1, F, kind, ids) :
              next \in {Step(acc, items[k],
                              IF k \in F THEN kind ELSE "none", ids)}} : TRUE

\* (results put back into a span in reverse order)
SpanResultsReversed(out, s) ==
    LET InSpan(r) == r.span = s
        mine == SelectSeq(out, InSpan)
    IN [i \in 1..Len(mine) |-> mine[Len(mine) + 1 - i]]

\* processed_activities of span s
SpanResults(out, s) ==
    LET InSpan(r) == r.span = s
    IN SelectSeq(out, InSpan)

\* span['activities'] = processed_activities, for every span
ProcessedPlan(plan, out) ==
    IF "spans" \notin DOMAIN plan THEN plan
    ELSE [plan EXCEPT !.spans =
            [s \in 1..Len(plan.spans) |->
                [k \in (DOMAIN plan.spans[s]) \cup {"activities"} |->
                    IF k = "activities" THEN SpanResults(out, s)
                    ELSE plan.spans[s][k]]]]

\* the dict the caller passed, as it is after the call.  trip_plan_json.copy()
\* copies the top-level dict only: the list under 'spans' and the span dicts
\* in it are the caller's own objects, so span['activities'] = ... assigns to
\* the caller's span, for every span whose loop pass completed (all of them
\* when nothing raised, those before span `at` when a call raised there)
CallerPlanAfter(plan, out, at) ==
    IF "spans" \notin DOMAIN plan THEN plan
    ELSE [plan EXCEPT !.spans =
            [s \in 1..Len(plan.spans) |->
                IF at = 0 \/ s < at
                THEN [k \in (DOMAIN plan.spans[s]) \cup {"activities"} |->
                         IF k = "activities" THEN SpanResults(out, s)
                         ELSE plan.spans[s][k]]
                ELSE plan.spans[s]]]

\* process_trip_plan(trip_plan_json) from state st
ProcessTripPlan(st, plan, F, kind, ids) ==
    CHOOSE r \in
      {[st |-> done.st, raised |-> done.raised, fits |-> done.fits,
        used |-> done.used, generated |-> done.generated,
        count |-> Len(done.out),
        plan |-> ProcessedPlan(plan, done.out),
        after |-> CallerPlanAfter(plan, done.out, done.at)] :
         done \in {ProcessItems(start, items, 1, F, kind, ids) :
                      start \in {PlanStart(st)},
                      items \in {FlatItems(SpansOf(plan), 1)}}} : TRUE

\* get_activity_stats: total_activities
GetActivityStats(st) == Len(st.activities)

Init ==
    /\ activities = <<>>
    /\ index = NewIndex("L2")
    /\ index_to_id = <<>>
    /\ indexFile = [exists |-> FALSE, index |-> NewIndex("L2")]
    /\ recordsFile = [exists |-> FALSE, records |-> <<>>]
    /\ up = TRUE
    /\ usedIds = {}
    /\ ret = [op |-> "init", path |-> "none", activityId |-> NoId,
              data |-> NoData, input |-> NoData, fired |-> "none",
              count |-> 0, sig |-> <<>>]
    /\ lastFor = [t \in Tuples |-> NoId]
    /\ held = [t \in Tuples |-> NoId]
    /\ got = [i \in IDS |-> [all |-> {}, last |-> NoEmbedding]]
    /\ prior = NoPrior
    /\ lastKill = NoKill
    /\ other = NoMemory
    /\ reqs = [r \in Requests |-> NoRequest]
    /\ running = 0

\* one call of process_activity(a) in which step `fail` goes wrong
Call(a, fail) ==
    /\ up
    /\ \E probe \in {ProcessActivity(State, a, fail, ProbeNew, ProbeFb)} :
         /\ probe.fired = fail \/ (fail = "none" /\ probe.path = "fallback")
         /\ \E newId \in (IF ProbeNew \in probe.generated
                           THEN FreshIds ELSE {NoId}) :
            \E fbId \in (IF ProbeFb \in probe.generated
                         THEN FreshIds \ {newId} ELSE {NoId}) :
            \E o \in {ProcessActivity(State, a, fail, newId, fbId)} :
               /\ activities' = IF o.path = "killed" THEN <<>>
                                ELSE o.activities
               /\ index' = IF o.path = "killed" THEN NewIndex("L2")
                           ELSE o.index
               /\ index_to_id' = IF o.path = "killed" THEN <<>>
                                 ELSE o.index_to_id
               /\ indexFile' = o.indexFile
               /\ recordsFile' = o.recordsFile
               /\ up' = (o.path # "killed")
               /\ usedIds' = usedIds \cup (o.generated \ {fbId})
               /\ ret' = [op |-> "resolve", path |-> o.path,
                          activityId |-> o.activityId, data |-> o.data,
                          input |-> a, fired |-> o.fired, count |-> 0,
                          sig |-> SignatureOf(a)]
               /\ lastKill' = IF o.path = "killed"
                              THEN [st |-> State, input |-> a,
                                    newId |-> newId]
                              ELSE NoKill
    /\ UNCHANGED server

\* process_activity with the embedder and the disk working
Resolve(a) == Call(a, "none") /\ UNCHANGED <<lastFor, held, got, prior>>

\* process_activity when _get_embedding raises
ResolveEmbedFail(a) == Call(a, "embed") /\ UNCHANGED <<lastFor, held, got, prior>>

\* process_activity when faiss.write_index or _save_activities raises
ResolveWriteFail(a, f) == Call(a, f) /\ UNCHANGED <<lastFor, held, got, prior>>

\* the process is killed inside process_activity
ResolveKilled(a, f) == Call(a, f) /\ UNCHANGED <<lastFor, held, got, prior>>

\* a new ActivityProcessingService is constructed over the same files
Restart ==
    \E st \in {InitEngine(State)} :
       /\ activities' = st.activities
       /\ index' = st.index
       /\ index_to_id' = st.index_to_id
       /\ indexFile' = st.indexFile
       /\ recordsFile' = st.recordsFile
       /\ up' = TRUE
       /\ ret' = [op |-> "load", path |-> IF up THEN "restart" ELSE "recover",
                  activityId |-> NoId, data |-> NoData, input |-> NoData,
                  fired |-> "none", count |-> 0, sig |-> <<>>]
       /\ lastKill' = NoKill
       /\ UNCHANGED <<usedIds, lastFor, held, got, prior, server>>

\* (a rebuild that adds the records to the index it finds, without first
\* replacing index and index_to_id by empty ones)
RebuildIndexWithoutReset ==
    /\ up
    /\ \E ix \in {[index EXCEPT !.vecs = @ \o RebuiltIndex(activities).vecs]} :
          /\ index' = ix
          /\ index_to_id' = index_to_id \o Keys(activities)
          /\ indexFile' = [exists |-> TRUE, index |-> ix]
    /\ ret' = [op |-> "rebuild", path |-> "done", activityId |-> NoId,
               data |-> NoData, input |-> NoData, fired |-> "none",
               count |-> IF ret.op = "rebuild" THEN 2 ELSE 1, sig |-> <<>>]
    /\ lastKill' = NoKill
    /\ UNCHANGED <<activities, recordsFile, up, usedIds, lastFor, held, got,
                   prior, server>>

\* one call of _rebuild_index(); ret.count tells whether the call before
\* it was a rebuild as well (2) or not (1)
RebuildIndex ==
    /\ up
    /\ \E ix \in {RebuiltIndex(activities)} :
          /\ index' = ix
          /\ index_to_id' = Keys(activities)
          /\ indexFile' = [exists |-> TRUE, index |-> ix]
    /\ ret' = [op |-> "rebuild", path |-> "done", activityId |-> NoId,
               data |-> NoData, input |-> NoData, fired |-> "none",
               count |-> IF ret.op = "rebuild" THEN 2 ELSE 1, sig |-> <<>>]
    /\ lastKill' = NoKill
    /\ UNCHANGED <<activities, recordsFile, up, usedIds, lastFor, held, got,
                   prior, server>>

\* cleanup_old_activities(days_old)
CleanupEffect(cutoff) ==
    /\ up
    /\ \E c \in {CleanupOldActivities(State, cutoff)} :
          /\ activities' = c.st.activities
          /\ index' = c.st.index
          /\ index_to_id' = c.st.index_to_id
          /\ indexFile' = c.st.indexFile
          /\ recordsFile' = c.st.recordsFile
          /\ ret' = [op |-> "cleanup",
                     path |-> IF c.raised THEN "raise" ELSE "done",
                     activityId |-> NoId, data |-> NoData, input |-> NoData,
                     fired |-> IF c.raised THEN "AttributeError" ELSE "none",
                     count |-> c.deleted_count, sig |-> <<>>]
    /\ lastKill' = NoKill
    /\ UNCHANGED <<up, usedIds, lastFor, held, got, prior>>

Cleanup(cutoff) == CleanupEffect(cutoff) /\ UNCHANGED server

\* the trip plans submitted: spans with dict activities, a span without
\* an 'activities' key, a plan without a 'spans' key, and a plan one of
\* whose activities is no mapping
DictOf(n) == DictValue(BaseActivity(n))
Span(id, acts) == [spanId |-> id, activities |-> acts]
Plans ==
    { [tripId |-> 1],
      [tripId |-> 2, spans |-> <<Span(1, <<DictOf(<<"A">>), DictOf(<<"c">>)>>),
                                 Span(2, <<DictOf(<<"b">>)>>)>>],
      [tripId |-> 3, spans |-> <<Span(1, <<DictOf(<<"c">>)>>),
                                 [spanId |-> 2],
                                 Span(3, <<DictValue(NotedActivity(<<"b">>)),
                                           DictOf(<<"A">>)>>)>>],
      [tripId |-> 4, spans |-> <<Span(1, <<DictOf(<<"b">>), StrValue>>),
                                 Span(2, <<DictOf(<<"A">>)>>)>>] }

PlanSize(plan) == Len(FlatItems(SpansOf(plan), 1))

\* the orders in which uuid4 can produce the ids of S
PermsOf(S) ==
    {f \in [1..Cardinality(S) -> S] :
        \A i, j \in 1..Cardinality(S) : f[i] = f[j] => i = j}

\* one call of process_trip_plan(plan), on the engine of the controller, in
\* which step `kind` goes wrong for the activities at the positions of F
PlanEffect(plan, F, kind) ==
    /\ up
    /\ \E ids \in PermsOf(FreshIds) :
       \E r \in {ProcessTripPlan(State, plan, F, kind, ids)} :
          /\ r.fits
          /\ \A k \in F : k <= r.count
          /\ activities' = r.st.activities
          /\ index' = r.st.index
          /\ index_to_id' = r.st.index_to_id
          /\ indexFile' = r.st.indexFile
          /\ recordsFile' = r.st.recordsFile
          /\ usedIds' = usedIds \cup r.generated
          /\ ret' = [op |-> "plan",
                     path |-> IF r.raised THEN "raise" ELSE "done",
                     activityId |-> NoId,
                     data |-> IF r.raised THEN NoData ELSE r.plan,
                     input |-> plan,
                     fired |-> IF r.raised THEN "TypeError"
                               ELSE IF F = {} THEN "none" ELSE kind,
                     count |-> r.count, sig |-> <<>>, after |-> r.after]
    /\ lastKill' = NoKill
    /\ UNCHANGED up

PlanCall(plan, F, kind) == PlanEffect(plan, F, kind) /\ UNCHANGED server

\* process_trip_plan with the embedder and the disk working
ResolvePlan(plan) ==
    PlanCall(plan, {}, "none") /\ UNCHANGED <<lastFor, held, got, prior>>

\* process_trip_plan in which the embedder or a disk write fails for some
\* of the activities
ResolvePlanFailing(plan, F, kind) ==
    /\ F # {}
    /\ PlanCall(plan, F, kind)
    /\ UNCHANGED <<lastFor, held, got, prior>>

PlanFailures == {"embed", "index_write", "records_write"}

\* ------------------------------------------------------- the HTTP endpoints
\* trip_controller.py: every handler is an `async def`, so it runs on the
\* one thread of the event loop and gives the loop back only at an await or
\* at its return.  plan_trip awaits the LLM chain and then calls
\* process_trip_plan on the engine of TripService; the three other handlers
\* call the engine of the controller and hold no await.
Endpoints == {"plan_trip", "process_activities", "activity_stats",
              "cleanup_activities"}
Mutating(ep) ==
    ep \in {"plan_trip", "process_activities", "cleanup_activities"}

\* the plan that arrives over HTTP, or comes from the LLM
ServerPlans ==
    { [tripId |-> 5, spans |-> <<Span(1, <<DictOf(<<"A">>)>>),
                                 Span(2, <<DictOf(<<"b">>)>>)>>] }

\* the engine TripService.__init__ constructs, over the same two files
OtherState == [activities |-> other.activities, index |-> other.index,
               index_to_id |-> other.index_to_id,
               indexFile |-> indexFile, recordsFile |-> recordsFile]

KeepEngines ==
    UNCHANGED <<activities, index, index_to_id, indexFile, recordsFile, up,
                usedIds, ret, lastFor, held, got, prior, lastKill, other>>

Returned(r) == [reqs EXCEPT ![r] = NoRequest]

\* a request arrives and its handler is queued as a task of the loop
Arrive(r, ep) ==
    /\ up
    /\ reqs[r].pc = "none"
    /\ reqs' = [reqs EXCEPT ![r] = [ep |-> ep, pc |-> "queued"]]
    /\ UNCHANGED running
    /\ KeepEngines

\* (handlers started on a thread of their own, whatever else is running)
StartHandlerInThread(r) ==
    /\ reqs[r].pc = "queued"
    /\ IF reqs[r].ep = "plan_trip"
       THEN /\ reqs' = [reqs EXCEPT ![r].pc = "awaiting"]
            /\ UNCHANGED running
       ELSE /\ reqs' = [reqs EXCEPT ![r].pc = "in_op"]
            /\ running' = r
    /\ KeepEngines

\* the loop, idle, starts a queued handler: plan_trip runs up to its
\* `await chain.ainvoke(...)`, every other handler enters its engine call
StartHandler(r) ==
    /\ running = 0
    /\ reqs[r].pc = "queued"
    /\ IF reqs[r].ep = "plan_trip"
       THEN /\ reqs' = [reqs EXCEPT ![r].pc = "awaiting"]
            /\ UNCHANGED running
       ELSE /\ reqs' = [reqs EXCEPT ![r].pc = "in_op"]
            /\ running' = r
    /\ KeepEngines

\* the LLM answers: the suspended plan_trip can be resumed
LlmReturns(r) ==
    /\ reqs[r].pc = "awaiting"
    /\ reqs' = [reqs EXCEPT ![r].pc = "resumable"]
    /\ UNCHANGED running
    /\ KeepEngines

\* the loop, idle, resumes plan_trip, which enters process_trip_plan
ResumeHandler(r) ==
    /\ running = 0
    /\ reqs[r].pc = "resumable"
    /\ reqs' = [reqs EXCEPT ![r].pc = "in_op"]
    /\ running' = r
    /\ KeepEngines

InOp(r, ep) == running = r /\ reqs[r].pc = "in_op" /\ reqs[r].ep = ep

Leave(r) == reqs' = Returned(r) /\ running' = 0

\* POST /process-activities: process_trip_plan on the controller's engine
FinishProcessActivities(r, plan) ==
    /\ InOp(r, "process_activities")
    /\ PlanEffect(plan, {}, "none")
    /\ Leave(r)
    /\ UNCHANGED <<lastFor, held, got, prior, other>>

\* POST /plan-trip: process_trip_plan on the engine of TripService
FinishPlanTrip(r, plan) ==
    /\ InOp(r, "plan_trip")
    /\ \E ids \in PermsOf(FreshIds) :
       \E res \in {ProcessTripPlan(OtherState, plan, {}, "none", ids)} :
          /\ res.fits
          /\ other' = [activities |-> res.st.activities,
                       index |-> res.st.index,
                       index_to_id |-> res.st.index_to_id]
          /\ indexFile' = res.st.indexFile
          /\ recordsFile' = res.st.recordsFile
          /\ usedIds' = usedIds \cup res.generated
          /\ ret' = [op |-> "plan_trip",
                     path |-> IF res.raised THEN "raise" ELSE "done",
                     activityId |-> NoId,
                     data |-> IF res.raised THEN NoData ELSE res.plan,
                     input |-> plan,
                     fired |-> IF res.raised THEN "TypeError" ELSE "none",
                     count |-> res.count, sig |-> <<>>, after |-> res.after]
    /\ Leave(r)
    /\ UNCHANGED <<activities, index, index_to_id, up, lastFor, held, got,
                   prior, lastKill>>

\* GET /activity-stats: get_activity_stats on the controller's engine
FinishStats(r) ==
    /\ InOp(r, "activity_stats")
    /\ ret' = [op |-> "stats", path |-> "done", activityId |-> NoId,
               data |-> NoData, input |-> NoData, fired |-> "none",
               count |-> GetActivityStats(State), sig |-> <<>>]
    /\ Leave(r)
    /\ UNCHANGED <<activities, index, index_to_id, indexFile, recordsFile,
                   up, usedIds, lastFor, held, got, prior, lastKill, other>>

\* DELETE /cleanup-activities/{days_old} on the controller's engine
FinishCleanup(r, cutoff) ==
    /\ InOp(r, "cleanup_activities")
    /\ CleanupEffect(cutoff)
    /\ Leave(r)
    /\ UNCHANGED other

WriteFailures == {"index_write", "records_write"}
KillPoints == {"kill_before_index_write", "kill_after_index_write"}
Cutoffs == {0}

Next ==
    \/ \E a \in Activities : Resolve(a)
    \/ \E a \in Activities : ResolveEmbedFail(a)
    \/ \E a \in Activities, f \in WriteFailures : ResolveWriteFail(a, f)
    \/ \E a \in Activities, f \in KillPoints : ResolveKilled(a, f)
    \/ Restart
    \/ \E c \in Cutoffs : Cleanup(c)

Spec == Init /\ [][Next]_vars

\* A run of successful resolves on one engine started over no files, with
\* the history of the ids handed out: per tuple the id of its latest
\* resolve, and per id the embeddings of the submissions it was given to.
TrackedResolve(a) ==
    /\ Call(a, "none")
    /\ LET t == TupleOf(a)
           e == GetEmbedding(SignatureOf(a))
           id == ret'.activityId
       IN IF ret'.path \in {"match", "create"}
          THEN /\ lastFor' = [lastFor EXCEPT ![t] = id]
               /\ held' = [u \in Tuples |->
                             IF u = t THEN id
                             ELSE IF held[u] = id THEN NoId ELSE held[u]]
               /\ got' = [got EXCEPT ![id] = [all |-> @.all \cup {e},
                                              last |-> e]]
               /\ prior' = [last |-> lastFor[t], held |-> held[t],
                            emb |-> got[id].last]
          ELSE /\ prior' = NoPrior
               /\ UNCHANGED <<lastFor, held, got>>

\* resolves and engine restarts, nothing failing
NextRestart ==
    \/ \E a \in Activities : Resolve(a)
    \/ Restart

SpecRestart == Init /\ [][NextRestart]_vars

NextResolve == \E a \in Activities : TrackedResolve(a)

SpecResolve == Init /\ [][NextResolve]_vars

\* requests to the four endpoints, served by the event loop
NextServer ==
    \/ \E r \in Requests, ep \in Endpoints : Arrive(r, ep)
    \/ \E r \in Requests : StartHandler(r)
    \/ \E r \in Requests : LlmReturns(r)
    \/ \E r \in Requests : ResumeHandler(r)
    \/ \E r \in Requests, plan \in ServerPlans :
         FinishProcessActivities(r, plan)
    \/ \E r \in Requests, plan \in ServerPlans : FinishPlanTrip(r, plan)
    \/ \E r \in Requests : FinishStats(r)
    \/ \E r \in Requests, c \in Cutoffs : FinishCleanup(r, c)

SpecServer == Init /\ [][NextServer]_vars

\* whole trip plans through process_trip_plan, with and without failures,
\* and single resolves in between
NextPlan ==
    \/ \E a \in Activities : Resolve(a)
    \/ \E plan \in Plans : ResolvePlan(plan)
    \/ \E plan \in Plans : \E F \in SUBSET (1..PlanSize(plan)) :
         \E kind \in PlanFailures : ResolvePlanFailing(plan, F, kind)

SpecPlan == Init /\ [][NextPlan]_vars

\* successful resolves of every kind of submission: the plain ones, the
\* spelling variants and the ones that lack a text field
NextInputs ==
    \E a \in Activities \cup VariantActivities \cup IncompleteActivities :
        Resolve(a)

SpecInputs == Init /\ [][NextInputs]_vars

\* resolves, processes killed at any point of the two disk writes, disk
\* writes that fail, and engines constructed over what is left on disk
CrashPoints == KillPoints \cup {"kill_in_index_write"}

NextCrash ==
    \/ \E a \in Activities : Resolve(a)
    \/ \E a \in Activities, f \in WriteFailures : ResolveWriteFail(a, f)
    \/ \E a \in Activities, f \in CrashPoints : ResolveKilled(a, f)
    \/ Restart

SpecCrash == Init /\ [][NextCrash]_vars

\* resolves, engine restarts and direct calls of _rebuild_index
NextRebuild ==
    \/ \E a \in Activities : Resolve(a)
    \/ Restart
    \/ RebuildIndex

SpecRebuild == Init /\ [][NextRebuild]_vars


\* ================================================================= claims
EmbeddingOf(a) == GetEmbedding(SignatureOf(a))

\* similarity of two embeddings as _search_similar_activities derives it
\* from the L2 index
PairSimilarity(a, b) == Similarity([metric |-> "L2", vecs |-> <<b>>], a, 1)

Persisted == ret.op = "resolve" /\ ret.path \in {"match", "create"}

RecordSet(acts) == {acts[i] : i \in 1..Len(acts)}

\* sizes agree and every index vector is the embedding of the record its
\* slot is mapped to
Coherent(acts, ix, i2id) ==
    /\ NTotal(ix) = Len(i2id)
    /\ Len(i2id) = Len(acts)
    /\ \A i \in 1..Len(i2id) :
         /\ HasKey(acts, i2id[i])
         /\ ix.vecs[i] = Get(acts, i2id[i]).embedding

\* C1: after every completed process_activity or cleanup_old_activities
\* call, on whichever path, index.ntotal = len(index_to_id) = len(activities).
C1_SizesEqualAfterCall ==
    (ret.op \in {"resolve", "cleanup"} /\ ret.path # "killed")
      => (NTotal(index) = Len(index_to_id) /\ Len(index_to_id) = Len(activities))

\* C2: two consecutive process_activity calls with the same tuple, neither
\* hitting an embedding or disk failure, return the same activityId.
C2_IdempotentResolution ==
    [][(/\ ret.op = "resolve" /\ ret'.op = "resolve"
        /\ ret.path \in {"match", "create"}
        /\ ret'.path \in {"match", "create"}
        /\ TupleOf(ret'.input) = TupleOf(ret.input))
       => ret'.activityId = ret.activityId]_vars

\* C3 as stated: once a tuple was given a persisted id, every later
\* successful resolve of that tuple returns that id, whatever was resolved
\* in between.
C3_StableForEver ==
    (Persisted /\ prior.last # NoId) => ret.activityId = prior.last

\* C3 amended: a later resolve of the tuple returns the id it was given
\* before, provided no resolve of another tuple was given that id in between.
C3_StableWhileNotReused ==
    (Persisted /\ prior.held # NoId) => ret.activityId = prior.held

\* the tuple was resolved before, another record exists beside its own, and
\* resolving it again returned the id it held
C3_Witness ==
    /\ Persisted /\ ret.path = "match"
    /\ prior.held # NoId /\ ret.activityId = prior.held
    /\ Len(activities) > 1
    /\ \E u \in Tuples : u # TupleOf(ret.input) /\ lastFor[u] \notin {NoId, ret.activityId}

\* C4 as stated: two submissions whose embeddings are below the threshold
\* to each other never receive the same persisted activityId.
C4_NeverShareAnId ==
    \A id \in IDS : \A e1, e2 \in got[id].all :
        PairSimilarity(e1, e2) >= SimilarityThreshold

\* C4 amended: a submission receives an existing id only if its embedding
\* is at or above the threshold to the embedding of the latest submission
\* given that id (the one the record holds).
C4_SharedOnlyWithLatest ==
    (Persisted /\ ret.path = "match")
      => /\ prior.emb # NoEmbedding
         /\ PairSimilarity(EmbeddingOf(ret.input), prior.emb) >= SimilarityThreshold

\* a match that puts two submissions below the threshold under one id
C4_Witness ==
    /\ Persisted /\ ret.path = "match"
    /\ \E e1, e2 \in got[ret.activityId].all :
         PairSimilarity(e1, e2) < SimilarityThreshold

\* C5: whatever a submission was resolved to before the engine is
\* constructed anew over the same files, it is resolved to after.
C5_RestartConsistent ==
    [][(ret'.op = "load")
       => \A a \in Activities :
            LET before == SearchSimilar(index, index_to_id, EmbeddingOf(a))
                after == SearchSimilar(index', index_to_id', EmbeddingOf(a))
            IN (~before.raised /\ before.found # <<>>)
                 => (/\ ~after.raised
                     /\ after.found # <<>>
                     /\ after.found[1] = before.found[1])]_vars

\* C6: after the process was killed inside a resolve, the engine loaded from
\* disk holds the records of before that resolve or of after it, with the
\* index in step with them.
C6_CrashConsistent ==
    [][(~up /\ up')
       => LET after == ProcessActivity(lastKill.st, lastKill.input, "none",
                                       lastKill.newId, NoId)
          IN /\ Coherent(activities', index', index_to_id')
             /\ RecordSet(activities') \in
                  {RecordSet(lastKill.st.activities),
                   RecordSet(after.activities)}]_vars

\* C7: whenever process_activity returns a persisted id, the records file
\* holds that id with the submitted metadata and embedding and the index
\* file holds the vectors of the in-memory index.
C7_BothArtifactsWritten ==
    Persisted
      => /\ recordsFile.exists
         /\ HasKey(recordsFile.records, ret.activityId)
         /\ Get(recordsFile.records, ret.activityId)
              = Record(ret.activityId, Lower(GetOr(ret.input, "name")),
                       Lower(GetOr(ret.input, "location")),
                       Lower(GetOr(ret.input, "category")),
                       EmbeddingOf(ret.input))
         /\ indexFile.exists
         /\ indexFile.index.vecs = index.vecs

\* C8: when a disk write fails in process_activity, no activityId is
\* returned and activities, index and index_to_id are as before the call.
C8_WriteFailureRollsBack ==
    [][(ret'.op = "resolve" /\ ret'.fired \in WriteFailures)
       => /\ ret'.activityId = NoId
          /\ activities' = activities
          /\ index' = index
          /\ index_to_id' = index_to_id]_vars

\* C9: when the embedding call raises, process_activity returns the input
\* with a freshly generated activityId, memory and both files are unchanged,
\* and the id is not a key of the record store.
C9_EmbeddingFailureFallsBack ==
    [][(ret'.op = "resolve" /\ ret'.fired = "embed")
       => /\ ret'.path = "fallback"
          /\ ret'.data = ret'.input
          /\ ret'.activityId \in IDS \ (usedIds \cup {ret.activityId})
          /\ ret'.activityId \notin KeySet(activities')
          /\ ret'.activityId \notin KeySet(recordsFile'.records)
          /\ UNCHANGED <<activities, index, index_to_id, indexFile,
                         recordsFile>>]_vars

\* an embedding failure met by an engine that holds records
C9_Witness ==
    /\ ret.op = "resolve" /\ ret.fired = "embed" /\ ret.path = "fallback"
    /\ Len(activities) > 0
    /\ recordsFile.exists

\* C10: a result that degraded to a fallback id carries a marker, a key the
\* input did not have besides activityId, that tells it from a persisted one.
C10_FallbackIsMarked ==
    (ret.op = "resolve" /\ ret.path = "fallback")
      => \E k \in DOMAIN ret.data : k \notin DOMAIN ret.input

\* C11: a process_activity call whose activity lacks name, location or
\* category is rejected and reported to the caller, and activities, index,
\* index_to_id and both files are as before the call.
C11_MissingFieldRejected ==
    [][(ret'.op = "resolve" /\ ~(RequiredKeys \subseteq DOMAIN ret'.input))
       => /\ ret'.path = "rejected"
          /\ ret'.sig = <<>>
          /\ UNCHANGED <<activities, index, index_to_id, indexFile,
                         recordsFile>>]_vars

\* C14: on the match, create and fallback paths the returned dict, leaving
\* activityId aside, has exactly the keys of the input with their values.
C14_InputKeysPassThrough ==
    (ret.op = "resolve" /\ ret.path \in {"match", "create", "fallback"})
      => ret.data = ret.input

\* C19: two consecutive persisted resolves whose name, location and
\* category are equal after normalization pass the same text to the
\* embedder, the Normalizer's signature, and return the same activityId.
NormalizedSignature(a) ==
    CreateActivitySignature(GetOr(a, "name"), GetOr(a, "location"),
                            GetOr(a, "category"))

C19_EmbedsNormalizedSignature ==
    [][(/\ ret.op = "resolve" /\ ret'.op = "resolve"
        /\ ret.path \in {"match", "create"}
        /\ ret'.path \in {"match", "create"}
        /\ NormalizedSignature(ret'.input) = NormalizedSignature(ret.input))
       => /\ ret'.sig = NormalizedSignature(ret'.input)
          /\ ret'.sig = ret.sig
          /\ ret'.activityId = ret.activityId]_vars

\* C15: cleanup_old_activities completes on a store of any size, decides on
\* each record by its last-used timestamp, and returns the record count
\* before the call minus the record count after it.
C15_CleanupCountsRemoved ==
    [][(ret'.op = "cleanup")
       => /\ ret'.path = "done"
          /\ \A i \in 1..Len(activities) : HasLastUsed(activities[i])
          /\ KeySet(activities') \subseteq KeySet(activities)
          /\ ret'.count = Len(activities) - Len(activities')]_vars

\* C20: after every completed engine load, resolve or cleanup, the vector
\* at each slot of the index is the embedding of the record whose id is
\* index_to_id[slot].
C20_SlotHoldsRecordEmbedding ==
    (ret.op \in {"load", "resolve", "cleanup"} /\ ret.path # "killed")
      => \A i \in 1..NTotal(index) :
            /\ i <= Len(index_to_id)
            /\ HasKey(activities, index_to_id[i])
            /\ index.vecs[i] = Get(activities, index_to_id[i]).embedding

OutItems(plan) ==
    UNION {RecordSet(ActivitiesOf(SpansOf(plan)[s])) :
             s \in 1..Len(SpansOf(plan))}

\* C12: a plan returned by process_trip_plan has the spans of the input in
\* their order and, in every span, as many activities as the input span,
\* the one at each position being what process_activity returned for the
\* input activity at that position, with an activityId.
C12_PlanKeepsShape ==
    (ret.op = "plan" /\ ret.path = "done")
      => /\ ("spans" \in DOMAIN ret.data) = ("spans" \in DOMAIN ret.input)
         /\ Len(SpansOf(ret.data)) = Len(SpansOf(ret.input))
         /\ ret.count = PlanSize(ret.input)
         /\ \A s \in 1..Len(SpansOf(ret.input)) :
               /\ SpansOf(ret.data)[s].spanId = SpansOf(ret.input)[s].spanId
               /\ Len(ActivitiesOf(SpansOf(ret.data)[s]))
                    = Len(ActivitiesOf(SpansOf(ret.input)[s]))
               /\ \A i \in 1..Len(ActivitiesOf(SpansOf(ret.input)[s])) :
                     \E r \in {ActivitiesOf(SpansOf(ret.data)[s])[i]} :
                     \E v \in {ActivitiesOf(SpansOf(ret.input)[s])[i]} :
                        /\ v.type = "dict"
                        /\ r.activityId \in IDS
                        /\ r.data = IF r.path = "match" THEN MatchData(v.v)
                                    ELSE SpreadData(v.v)

\* a returned plan of several spans, one of them with two activities, in
\* which one activity was matched and one fell back
C12_Witness ==
    /\ ret.op = "plan" /\ ret.path = "done"
    /\ Len(SpansOf(ret.data)) > 1
    /\ \E s \in 1..Len(SpansOf(ret.data)) :
          Len(ActivitiesOf(SpansOf(ret.data)[s])) > 1
    /\ \E r \in OutItems(ret.data) : r.path = "match"
    /\ \E r \in OutItems(ret.data) : r.path = "fallback"

\* the record process_activity stores for a result it returned
ItemRecord(r) ==
    Record(r.activityId, Lower(GetOr(r.data, "name")),
           Lower(GetOr(r.data, "location")), Lower(GetOr(r.data, "category")),
           EmbeddingOf(r.data))

\* C13: whatever fails for some of the activities of a plan,
\* process_trip_plan returns, with every activity annotated, and the
\* records added or changed by the call are records of activities that got
\* a persisted id, none of an activity that fell back.
C13_FailuresStayIsolated ==
    [][(ret'.op = "plan")
       => /\ ret'.path = "done"
          /\ ret'.count = PlanSize(ret'.input)
          /\ \A rec \in RecordSet(activities') \ RecordSet(activities) :
                \E r \in OutItems(ret'.data) :
                   /\ r.path \in {"match", "create"}
                   /\ rec = ItemRecord(r)]_vars

\* C16: at no time are two engine operations in progress of which one is
\* process_trip_plan (process_activity) or cleanup_old_activities; in
\* particular get_activity_stats never runs during a mutation.
C16_OneOperationAtATime ==
    \A r1, r2 \in Requests :
       (/\ r1 # r2
        /\ reqs[r1].pc = "in_op"
        /\ reqs[r2].pc = "in_op")
         => ~Mutating(reqs[r1].ep) /\ ~Mutating(reqs[r2].ep)

\* a mutation is in progress on the loop while another request, already
\* accepted, waits for the loop
C16_Witness ==
    \E r1, r2 \in Requests :
       /\ r1 # r2
       /\ reqs[r1].pc = "in_op" /\ Mutating(reqs[r1].ep)
       /\ reqs[r2].pc \in {"queued", "resumable"}
       /\ Len(activities) + Len(other.activities) > 0

\* C17: the entry points act on one engine state: get_activity_stats counts
\* every record created through any entry point, the index one entry point
\* searches holds what the other stored, and every record created is still
\* in the records file.
C17_EntryPointsShareState ==
    /\ ret.op = "stats"
         => ret.count = Cardinality(KeySet(activities)
                                      \cup KeySet(other.activities))
    /\ other.index = index
    /\ KeySet(activities) \cup KeySet(other.activities)
         \subseteq KeySet(recordsFile.records)

\* C21: engine construction over artifacts whose counts disagree leaves
\* index.ntotal, len(index_to_id) and len(activities) equal
C21_LoadEqualizesSizes ==
    [][ret'.op = "load"
       => /\ NTotal(index') = Len(index_to_id')
          /\ Len(index_to_id') = Len(activities')]_vars

\* C22: no process_activity call that returns removes a record id, and engine
\* construction keeps every record id of the records file
C22_RecordsShrinkOnlyByCleanup ==
    [][/\ (ret'.op = "resolve" /\ ret'.path # "killed")
            => KeySet(activities) \subseteq KeySet(activities')
       /\ ret'.op = "load"
            => KeySet(LoadActivities(recordsFile)) \subseteq KeySet(activities')
      ]_vars

\* the record process_activity builds from a submission for record id
RecordFor(id, a) ==
    Record(id, Lower(GetOr(a, "name")), Lower(GetOr(a, "location")),
           Lower(GetOr(a, "category")), EmbeddingOf(a))

\* slot is among the TopK hits of a search for e and is similar enough
Candidate(ix, e, slot) ==
    /\ \E p \in 1..Len(IndexSearch(ix, e, TopK)) :
          IndexSearch(ix, e, TopK)[p] = slot
    /\ Similarity(ix, e, slot) >= SimilarityThreshold

C25_BestThenLowestId ==
    [][(ret'.op = "resolve" /\ ret'.path = "match")
       => LET e == EmbeddingOf(ret'.input)
              cands == {slot \in 1..NTotal(index) :
                           /\ Candidate(index, e, slot)
                           /\ slot <= Len(index_to_id)}
          IN \E best \in cands :
                /\ index_to_id[best] = ret'.activityId
                /\ \A slot \in cands :
                      /\ Similarity(index, e, slot) <= Similarity(index, e, best)
                      /\ Similarity(index, e, slot) = Similarity(index, e, best)
                           => ret'.activityId <= index_to_id[slot]]_vars

\* C26: after a _rebuild_index (in a match, or in a load over files of
\* different sizes) index_to_id lists the record ids in ascending order
C26_RebuildSortsIds ==
    [][((ret'.op = "resolve" /\ ret'.path = "match")
          \/ (ret'.op = "load" /\ indexFile.exists /\ Readable(indexFile)
                /\ recordsFile.exists
                /\ NTotal(indexFile.index) # Len(recordsFile.records)))
       => \A i, j \in 1..Len(index_to_id') :
             i < j => index_to_id'[i] < index_to_id'[j]]_vars

\* C28: after a completed load, resolve or cleanup index_to_id holds every
\* key of activities once and nothing else, and every slot of the index
\* has an entry in index_to_id that is a key of activities
C28_MappingCoversRecords ==
    (up /\ ret.op \in {"load", "resolve", "cleanup"})
    => /\ Len(index_to_id) = Len(activities)
       /\ {index_to_id[i] : i \in 1..Len(index_to_id)} = KeySet(activities)
       /\ \A slot \in 1..NTotal(index) :
             /\ slot <= Len(index_to_id)
             /\ HasKey(activities, index_to_id[slot])

\* C29: a call on the match path leaves every record but the matched one
\* as it was, and a call on the create path leaves every existing record
\* as it was
C29_OtherRecordsUntouched ==
    [][(ret'.op = "resolve" /\ ret'.path \in {"match", "create"})
       => /\ Len(activities') >= Len(activities)
          /\ \A i \in 1..Len(activities) :
                (ret'.path = "create"
                   \/ activities[i].activity_id # ret'.activityId)
                => activities'[i] = activities[i]]_vars

\* a match on one of two records, the other holding different fields
C29_Witness ==
    /\ ret.op = "resolve" /\ ret.path = "match"
    /\ Len(activities) = 2
    /\ \E i \in 1..2 :
          /\ activities[i].activity_id # ret.activityId
          /\ activities[i].embedding # EmbeddingOf(ret.input)
          /\ activities[i].name # Lower(GetOr(ret.input, "name"))

\* what _search_similar_activities returns for embedding e: whether it
\* raised, and the (id, similarity) pairs
SearchPairs(ix, i2id, e) ==
    [raised |-> SearchSimilar(ix, i2id, e).raised,
     found |-> {<<i2id[slot], Similarity(ix, e, slot)>> :
                   slot \in {s \in 1..NTotal(ix) :
                                Candidate(ix, e, s) /\ s <= Len(i2id)}},
     first |-> SearchSimilar(ix, i2id, e).found]

\* C27: a _rebuild_index that directly follows a _rebuild_index leaves the
\* index, index_to_id and the index file as the first one left them, and
\* every search returns the same (id, similarity) list as before it
C27_RebuildTwiceSame ==
    [][(ret.op = "rebuild" /\ ret'.op = "rebuild")
       => /\ index' = index
          /\ index_to_id' = index_to_id
          /\ indexFile' = indexFile
          /\ \A a \in Activities :
                SearchPairs(index', index_to_id', EmbeddingOf(a))
                  = SearchPairs(index, index_to_id, EmbeddingOf(a))]_vars

\* a second rebuild in a row, over two records with different embeddings
C27_Witness ==
    /\ ret.op = "rebuild" /\ ret.count = 2
    /\ Len(activities) = 2
    /\ activities[1].embedding # activities[2].embedding
    /\ index.vecs = <<activities[1].embedding, activities[2].embedding>>

\* C30: after process_trip_plan the plan the caller passed is what it was
\* before the call: its spans hold their original activity lists, whose
\* entries carry no activityId
C30_InputPlanUnchanged ==
    ret.op = "plan" => ret.after = ret.input
====
